---- MODULE Spec2Model ----
(***************************************************************************)
(* Model of vex_skills_tracker.py: the paginated, retrying fetch client    *)
(* (RobotEventsAPI._get, RobotEventsAPI._get_all_pages), the skills        *)
(* aggregation (aggregate_skills) and the qualification filter of main.    *)
(***************************************************************************)
EXTENDS Integers, Sequences, FiniteSets, TLC

\* ------------------------------------------------------------------------
\* Bounds of the model
\* ------------------------------------------------------------------------
MaxPages == 2        \* the server holds 1..MaxPages pages
MaxRuns == 3         \* the run stream handed to aggregate_skills holds 0..MaxRuns runs
MaxFilterRuns == 3   \* the same for the run streams behind the filtered leaderboards
MaxRoster == 2       \* a championship roster given to the grade filter holds 0..MaxRoster teams
MaxRawRuns == 2      \* a run stream with missing fields holds 0..MaxRawRuns runs
MaxOrderRuns == 3    \* a run stream that is compared with its reorderings holds 0..MaxOrderRuns runs
MaxRequests == 4     \* requests answered by a server that misreports its page counters

\* ------------------------------------------------------------------------
\* Program constants
\* ------------------------------------------------------------------------
MAX_RETRIES == 3
RATE_LIMIT_DELAY_MS == 350
DEFAULT_RETRY_AFTER == 30

VARIABLES
    pc,             \* position of the client: "get", "page", "returned", "raised"
    srv_lens,       \* the server's collection: srv_lens[p] = number of records of page p,
                    \* -1 for a page whose envelope has no data key
    srv_cur,        \* srv_cur[p] = the current_page the server reports for page p
    srv_total,      \* what the server reports as total: "absent", "zero", "exact", "wrong"
    page,           \* params["page"]
    attempt,        \* loop variable of _get
    result,         \* value returned by the last _get call
    all_data,       \* accumulator of _get_all_pages
    request_count,  \* self.request_count
    log,            \* every sleep, request and response of the client, in order
    call_base,      \* length of log when the current _get call started
    progress,       \* the last progress line of _get_all_pages (shown when it has a label)
    stage,          \* position of main: "input", "aggregated", "filtered"
    all_skills,     \* the run stream handed to aggregate_skills
    team_event,     \* the dict team_event of aggregate_skills, in insertion order
    leaderboard,    \* result of aggregate_skills
    qualified_team_ids, \* set built from the championship roster
    non_qualified,  \* the bubble list
    qualified_in_top, \* the reported count of qualified teams filtered out
    mpc,            \* position of main: "season", "events", ..., "done", "aborted"
    cache,          \* the files of the cache directory, by key
    io,             \* the cache loads, cache saves and network fetches of main, in order
    srv_pages,      \* the pages of the collection that main is fetching
    season_result,  \* how the seasons query ended
    season,         \* the season chosen in step 1
    events,         \* the season events of step 2
    worlds_result,  \* the events returned by the query of get_worlds_event
    worlds_event,   \* the championship event of step 3
    worlds_teams,   \* the championship roster of step 3
    todo,           \* the events whose skills step 4 has still to fetch
    skill_log,      \* for every event of step 4: its runs on the server and how its fetch ended
    error,          \* the exception that ended main
    report          \* the report written in step 7

srvVars == <<srv_lens, srv_cur, srv_total>>

fetchVars == <<pc, srvVars, page, attempt, result, all_data, request_count,
               log, call_base, progress>>

aggVars == <<stage, all_skills, team_event, leaderboard, qualified_team_ids,
             non_qualified, qualified_in_top>>

mainVars == <<mpc, cache, io, srv_pages, season_result, season, events,
              worlds_result, worlds_event, worlds_teams, todo, skill_log,
              error, report>>

vars == <<fetchVars, aggVars, mainVars>>

\* ---- the server ---------------------------------------------------------
\* the Retry-After header of a 429 response: absent, or a number of seconds
NoHeader == [present |-> FALSE, seconds |-> 0]
RetryAfterHeaders == {NoHeader, [present |-> TRUE, seconds |-> 5]}

\* a page of the collection is empty or holds two records
PageLens == {0, 2}

\* the records of page p, each one distinct from every other record
Payload(p) == [k \in 1..srv_lens[p] |-> <<p, k>>]

LastPage == Len(srv_lens)

\* the number of records of the whole collection
RECURSIVE RecordsUpTo(_)
RecordsUpTo(n) == IF n = 0 THEN 0 ELSE RecordsUpTo(n - 1) + Len(Payload(n))

TotalKinds == {"absent", "zero", "exact", "wrong"}

\* the value of meta.total when the server sends one
ServerTotal ==
    IF srv_total = "exact" THEN RecordsUpTo(LastPage)
    ELSE IF srv_total = "wrong" THEN RecordsUpTo(LastPage) + 1
    ELSE 0

\* envelope { data: [...], meta: { current_page, last_page, total } } of page p
ServerBody(p) ==
    [has_data |-> srv_lens[p] >= 0, data |-> Payload(p),
     has_meta |-> TRUE, current_page |-> srv_cur[p], last_page |-> LastPage,
     has_total |-> srv_total # "absent", total |-> ServerTotal]

\* the literal {} of `return {}`
EmptyDict ==
    [has_data |-> FALSE, data |-> <<>>,
     has_meta |-> FALSE, current_page |-> 0, last_page |-> 0,
     has_total |-> FALSE, total |-> 0]

NoResult == EmptyDict

\* ---- helpers of _get ----------------------------------------------------
Ev(e, a) == [ev |-> e, arg |-> a]

\* int(resp.headers.get("Retry-After", 30)), in seconds
RetryWait(h) == IF h.present THEN h.seconds ELSE DEFAULT_RETRY_AFTER

\* a backoff that doubles from 2 seconds instead of 1
Backoff_m(a) == 2 ^ (a + 1)

\* 2 ** attempt, in seconds
Backoff(a) == 2 ^ a

\* a failed request is retried once more than the budget allows
CanRetry_m(a) == a < MAX_RETRIES

\* attempt < MAX_RETRIES - 1
CanRetry(a) == a < MAX_RETRIES - 1

\* range(MAX_RETRIES) has a further value after a
LoopContinues(a) == a + 1 < MAX_RETRIES

\* the pacing delay is taken before the first attempt of a call only
Issue_m(l, p) ==
    IF attempt = 0 THEN l \o <<Ev("pace", RATE_LIMIT_DELAY_MS), Ev("request", p)>>
    ELSE l \o <<Ev("request", p)>>

\* time.sleep(RATE_LIMIT_DELAY); self.request_count += 1; self.session.get(...)
Issue(l, p) == l \o <<Ev("pace", RATE_LIMIT_DELAY_MS), Ev("request", p)>>

\* ---- helpers of _get_all_pages ------------------------------------------
ResultData(r) == IF r.has_data THEN r.data ELSE <<>>
\* the client's own page counter instead of the one the server reports
MetaCurrent_m(r) == IF r.has_meta THEN page ELSE 1

MetaCurrent(r) == IF r.has_meta THEN r.current_page ELSE 1
MetaLast(r) == IF r.has_meta THEN r.last_page ELSE 1
\* meta.get("total", len(all_data))
MetaTotal(r, n) == IF r.has_meta /\ r.has_total THEN r.total ELSE n
NoProgress == [current |-> 0, last |-> 0, items |-> 0, total |-> 0]
\* pagination also stops once the reported total number of items is collected
PaginationDone_m(current, last) ==
    \/ current >= last
    \/ result.has_total /\ Len(all_data) + Len(ResultData(result)) >= result.total

PaginationDone(current, last) == current >= last

\* ---- values of main that are not set ---------------------------------------
NoSeason == 0
NoQuery == [outcome |-> "none", data |-> <<>>]
NoEvent == [id |-> 0, has_program |-> FALSE, program |-> 0]
NoReport == [written |-> FALSE, rows |-> <<>>, total_teams |-> 0,
             worlds_qualified_count |-> 0]

\* the aggregation is not running
AggIdle ==
    /\ stage = "idle"
    /\ all_skills = <<>>
    /\ team_event = <<>>
    /\ leaderboard = <<>>
    /\ qualified_team_ids = {}
    /\ non_qualified = <<>>
    /\ qualified_in_top = 0

\* main is not running
MainIdle ==
    /\ mpc = "idle"
    /\ cache = {}
    /\ io = <<>>
    /\ srv_pages = <<>>
    /\ season_result = NoQuery
    /\ season = NoSeason
    /\ events = <<>>
    /\ worlds_result = NoQuery
    /\ worlds_event = NoEvent
    /\ worlds_teams = <<>>
    /\ todo = <<>>
    /\ skill_log = <<>>
    /\ error = "none"
    /\ report = NoReport

\* ------------------------------------------------------------------------
\* Fetch client
\* ------------------------------------------------------------------------
FetchInit ==
    /\ pc = "get"
    /\ \E n \in 1..MaxPages :
          /\ srv_lens \in [1..n -> PageLens]
          /\ srv_cur = [p \in 1..n |-> p]
    /\ srv_total = "exact"
    /\ progress = NoProgress
    /\ page = 1
    /\ attempt = 0
    /\ result = NoResult
    /\ all_data = <<>>
    /\ request_count = 0
    /\ log = <<>>
    /\ call_base = 0

\* one iteration of the loop of _get: the response is successful
GetOk ==
    /\ pc = "get"
    /\ request_count' = request_count + 1
    /\ log' = Issue(log, page) \o <<Ev("ok", page)>>
    /\ result' = ServerBody(page)
    /\ pc' = "page"
    /\ UNCHANGED <<srvVars, page, attempt, all_data, call_base, progress>>
    /\ UNCHANGED aggVars
    /\ UNCHANGED mainVars

\* one iteration of the loop of _get: the response has status 429
GetRateLimited ==
    /\ pc = "get"
    /\ \E h \in RetryAfterHeaders :
          log' = Issue(log, page) \o
                 <<Ev("rate_limited", page), Ev("wait", RetryWait(h) * 1000)>>
    /\ request_count' = request_count + 1
    /\ IF LoopContinues(attempt)
          THEN /\ attempt' = attempt + 1
               /\ UNCHANGED <<pc, result>>
          ELSE /\ result' = EmptyDict
               /\ pc' = "page"
               /\ UNCHANGED attempt
    /\ UNCHANGED <<srvVars, page, all_data, call_base, progress>>
    /\ UNCHANGED aggVars
    /\ UNCHANGED mainVars

\* one iteration of the loop of _get: the request raises RequestException
GetFail ==
    /\ pc = "get"
    /\ request_count' = request_count + 1
    /\ IF CanRetry(attempt)
          THEN /\ log' = Issue(log, page) \o
                         <<Ev("error", page), Ev("backoff", Backoff(attempt) * 1000)>>
               /\ attempt' = attempt + 1
               /\ UNCHANGED pc
          ELSE /\ log' = Issue(log, page) \o <<Ev("error", page)>>
               /\ pc' = "raised"
               /\ UNCHANGED attempt
    /\ UNCHANGED <<srvVars, page, result, all_data, call_base, progress>>
    /\ UNCHANGED aggVars
    /\ UNCHANGED mainVars

\* the body of the while loop of _get_all_pages after _get has returned
PageStep ==
    /\ pc = "page"
    /\ all_data' = all_data \o ResultData(result)
    /\ LET current == MetaCurrent(result)
           last == MetaLast(result)
           total == MetaTotal(result, Len(all_data'))
       IN /\ progress' = [current |-> current, last |-> last,
                          items |-> Len(all_data'), total |-> total]
          /\ IF PaginationDone(current, last)
                THEN /\ pc' = "returned"
                     /\ UNCHANGED <<page, attempt, call_base>>
                ELSE /\ page' = current + 1
                     /\ attempt' = 0
                     /\ call_base' = Len(log)
                     /\ pc' = "get"
    /\ UNCHANGED <<srvVars, result, request_count, log>>
    /\ UNCHANGED aggVars
    /\ UNCHANGED mainVars

\* ---- a server that answers every request successfully --------------------
\* a page holds records, holds none, or comes without a data key
PageKinds == PageLens \cup {-1}

InitPages ==
    /\ pc = "get"
    /\ \E n \in 1..MaxPages :
          /\ srv_lens \in [1..n -> PageKinds]
          /\ srv_cur \in [1..n -> 1..n]
    /\ srv_total \in TotalKinds
    /\ progress = NoProgress
    /\ page = 1
    /\ attempt = 0
    /\ result = NoResult
    /\ all_data = <<>>
    /\ request_count = 0
    /\ log = <<>>
    /\ call_base = 0
    /\ AggIdle
    /\ MainIdle

\* a successful request, as long as the server is asked at all
PagesGetOk == request_count < MaxRequests /\ GetOk

Init == FetchInit /\ AggIdle /\ MainIdle

Next == GetOk \/ GetRateLimited \/ GetFail \/ PageStep

Spec == Init /\ [][Next]_vars

\* ---- successive _get calls of one client --------------------------------
InitCalls ==
    /\ pc = "get"
    /\ srv_lens = <<2, 2>>
    /\ srv_cur = <<1, 2>>
    /\ srv_total = "exact"
    /\ progress = NoProgress
    /\ page = 1
    /\ attempt = 0
    /\ result = NoResult
    /\ all_data = <<>>
    /\ request_count = 0
    /\ log = <<>>
    /\ call_base = 0
    /\ AggIdle
    /\ MainIdle

\* a caller (the loop of _get_all_pages, get_active_season, get_worlds_event,
\* or main after a caught exception) calls _get again
NextCall ==
    /\ pc \in {"page", "raised"}
    /\ request_count < MaxRequests
    /\ page' \in 1..LastPage
    /\ attempt' = 0
    /\ call_base' = Len(log)
    /\ pc' = "get"
    /\ UNCHANGED <<srvVars, result, all_data, request_count, log, progress>>
    /\ UNCHANGED aggVars
    /\ UNCHANGED mainVars

NextCalls == GetOk \/ GetRateLimited \/ GetFail \/ NextCall

SpecCalls == InitCalls /\ [][NextCalls]_vars

NextPages == PagesGetOk \/ PageStep

SpecPages == InitPages /\ [][NextPages]_vars

\* ------------------------------------------------------------------------
\* Skills aggregation (aggregate_skills)
\* ------------------------------------------------------------------------
Teams == {1, 2, 3}
Events == {1, 2}
Scores == {0, 1}
SkillTypes == {"driver", "programming"}

\* display labels carried by the team and event objects of a run
TeamNumber(t) == <<"team", t>>
EventName(e) == <<"event", e>>

\* a skills run: run["team"]["id"], run["event"]["id"], run["type"], run["score"]
RunRecords == [team : Teams, event : Events, type : SkillTypes, score : Scores]

\* the sequences over S of length 0..n
SeqsUpTo(S, n) == UNION {[1..k -> S] : k \in 0..n}

RunStreams == SeqsUpTo(RunRecords, MaxRuns)

\* run streams of a single event, enough to produce every order of the teams
FilterStreams == SeqsUpTo({r \in RunRecords : r.event = 1}, MaxFilterRuns)

\* the later score wins instead of the higher one
Max_m(a, b) == b

\* max(a, b)
Max(a, b) == IF a >= b THEN a ELSE b

\* groups keyed by the team alone, so that runs of several events share a group
KeyIndex_m(te, t, e) ==
    IF \E i \in 1..Len(te) : te[i].team_id = t
       THEN CHOOSE i \in 1..Len(te) : te[i].team_id = t
       ELSE 0

\* position of key (team_id, event_id) in the dict team_event (insertion order), 0 if absent
KeyIndex(te, t, e) ==
    IF \E i \in 1..Len(te) : te[i].team_id = t /\ te[i].event_id = e
       THEN CHOOSE i \in 1..Len(te) : te[i].team_id = t /\ te[i].event_id = e
       ELSE 0

\* None, the identifier read from a run without a team or without an event;
\* it is no identifier of a team or of an event
None == 0

\* the labels stored for a run without a team ("???") or without an event ("")
UnknownTeam == <<"???", None>>
UnknownEvent == <<"", None>>

\* a run is a dict: a field it does not hold is outside its domain
Has(run, field) == field \in DOMAIN run

\* run.get("team", {}).get("id")
TeamId(run) == IF Has(run, "team") THEN run.team ELSE None

\* run.get("event", {}).get("id")
EventId(run) == IF Has(run, "event") THEN run.event ELSE None

\* run.get("type", "")
SkillType(run) == IF Has(run, "type") THEN run.type ELSE ""

\* run.get("score", 0)
Score(run) == IF Has(run, "score") THEN run.score ELSE 0

\* the value stored under a new key of team_event
NewGroup(run) ==
    [team_id |-> TeamId(run),
     team_number |-> IF Has(run, "team") THEN TeamNumber(run.team) ELSE UnknownTeam,
     event_id |-> EventId(run),
     event_name |-> IF Has(run, "event") THEN EventName(run.event) ELSE UnknownEvent,
     driver |-> 0, programming |-> 0]

\* keep the highest score per type at this event
UpdateGroup(g, run) ==
    IF SkillType(run) = "driver"
       THEN [g EXCEPT !.driver = Max(g.driver, Score(run))]
    ELSE IF SkillType(run) = "programming"
       THEN [g EXCEPT !.programming = Max(g.programming, Score(run))]
    ELSE g

\* one iteration of `for run in all_skills`
ScanRun(te, run) ==
    LET te1 == IF KeyIndex(te, TeamId(run), EventId(run)) = 0
                  THEN Append(te, NewGroup(run)) ELSE te
        i == KeyIndex(te1, TeamId(run), EventId(run))
    IN [te1 EXCEPT ![i] = UpdateGroup(te1[i], run)]

\* the dict team_event after the first n runs
RECURSIVE GroupRuns(_, _)
GroupRuns(runs, n) ==
    IF n = 0 THEN <<>> ELSE ScanRun(GroupRuns(runs, n - 1), runs[n])

\* combined = data["driver"] + data["programming"]
Combined(g) == g.driver + g.programming

\* position of team_id in the dict best_per_team (insertion order), 0 if absent
TeamIndex(best, t) ==
    IF \E i \in 1..Len(best) : best[i].team_id = t
       THEN CHOOSE i \in 1..Len(best) : best[i].team_id = t
       ELSE 0

\* the value stored in best_per_team
BestEntry(g, combined) ==
    [team_id |-> g.team_id, team_number |-> g.team_number,
     event_name |-> g.event_name, driver |-> g.driver,
     programming |-> g.programming, combined |-> combined]

\* a later group of equal combined score replaces the held one
Replaces_m(combined, held) == combined >= held

\* combined > best_per_team[team_id]["combined"]
Replaces(combined, held) == combined > held

\* the entry of a team is never replaced: its first group stays
BestStep_m(best, g) ==
    IF TeamIndex(best, g.team_id) = 0 THEN Append(best, BestEntry(g, Combined(g)))
    ELSE best

\* one iteration of `for key, data in team_event.items()`
BestStep(best, g) ==
    LET i == TeamIndex(best, g.team_id)
        combined == Combined(g)
    IN IF i = 0 THEN Append(best, BestEntry(g, combined))
       ELSE IF Replaces(combined, best[i].combined)
               THEN [best EXCEPT ![i] = BestEntry(g, combined)]
               ELSE best

\* the dict best_per_team after the first n groups
RECURSIVE BestPerTeam(_, _)
BestPerTeam(te, n) ==
    IF n = 0 THEN <<>> ELSE BestStep(BestPerTeam(te, n - 1), te[n])

\* a comparison that also holds between equal keys, which makes the sort unstable
KeyLess_m(a, b) ==
    \/ -a.combined < -b.combined
    \/ -a.combined = -b.combined /\ -a.programming <= -b.programming

\* key=lambda x: (-x["combined"], -x["programming"]), compared as tuples
KeyLess(a, b) ==
    \/ -a.combined < -b.combined
    \/ -a.combined = -b.combined /\ -a.programming < -b.programming

\* sorted() is stable: x goes before the first element it is strictly less than
StableInsert(s, x) ==
    LET later == {i \in 1..Len(s) : KeyLess(x, s[i])}
        k == IF later = {} THEN Len(s) + 1
             ELSE CHOOSE i \in later : \A j \in later : i <= j
    IN SubSeq(s, 1, k - 1) \o <<x>> \o SubSeq(s, k, Len(s))

RECURSIVE Sorted(_, _)
Sorted(s, n) ==
    IF n = 0 THEN <<>> ELSE StableInsert(Sorted(s, n - 1), s[n])

\* ranks counted from 0
RankOf_m(pos) == pos - 1

\* entry["rank"] = i + 1 (i counted from 0)
RankOf(pos) == pos

WithRank(e, r) ==
    [team_id |-> e.team_id, team_number |-> e.team_number,
     event_name |-> e.event_name, driver |-> e.driver,
     programming |-> e.programming, combined |-> e.combined, rank |-> r]

AssignRanks(s) == [i \in 1..Len(s) |-> WithRank(s[i], RankOf(i))]

\* the second half of aggregate_skills: best group per team, sort, ranks
RankBest(te) ==
    LET best_per_team == BestPerTeam(te, Len(te))
    IN AssignRanks(Sorted(best_per_team, Len(best_per_team)))

aggregate_skills(runs) == RankBest(GroupRuns(runs, Len(runs)))

\* ------------------------------------------------------------------------
\* Qualification filter (main, step 6)
\* ------------------------------------------------------------------------
\* team identifiers that can be on the championship roster
RosterTeams == Teams \cup {4}

\* the rank is looked up in the qualified set instead of the team identifier
Keeps_m(e, qualified) == e.rank \notin qualified

\* t["team_id"] not in qualified_team_ids
Keeps(e, qualified) == e.team_id \notin qualified

FilterQualified(lb, qualified) == SelectSeq(lb, LAMBDA e : Keeps(e, qualified))

\* entry["bubble_rank"] = i + 1 (i counted from 0)
BubbleRankOf(pos) == pos

\* the new rank is written over the original one as well
WithBubbleRank_m(e, r) ==
    [team_id |-> e.team_id, team_number |-> e.team_number,
     event_name |-> e.event_name, driver |-> e.driver,
     programming |-> e.programming, combined |-> e.combined,
     rank |-> r, bubble_rank |-> r]

\* the entry after entry["bubble_rank"] = r
WithBubbleRank(e, r) ==
    [team_id |-> e.team_id, team_number |-> e.team_number,
     event_name |-> e.event_name, driver |-> e.driver,
     programming |-> e.programming, combined |-> e.combined,
     rank |-> e.rank, bubble_rank |-> r]

ReRank(s) == [i \in 1..Len(s) |-> WithBubbleRank(s[i], BubbleRankOf(i))]

\* len(leaderboard) - len(non_qualified)
FilteredOut(lb, nq) == Len(lb) - Len(nq)

\* the fetch client is not running
FetchIdle ==
    /\ pc = "idle"
    /\ srv_lens = <<>>
    /\ srv_cur = <<>>
    /\ srv_total = "absent"
    /\ progress = NoProgress
    /\ page = 1
    /\ attempt = 0
    /\ result = NoResult
    /\ all_data = <<>>
    /\ request_count = 0
    /\ log = <<>>
    /\ call_base = 0

AggInit ==
    /\ stage = "input"
    /\ all_skills \in RunStreams
    /\ team_event = <<>>
    /\ leaderboard = <<>>
    /\ qualified_team_ids = {}
    /\ non_qualified = <<>>
    /\ qualified_in_top = 0

InitAgg == FetchIdle /\ AggInit /\ MainIdle

\* the fields of a run that have to be there, as the scan would read them
\* with run[...]
StrictFields_m == {"score"}

\* the fields of a run that aggregate_skills reads with run[...]: none, all
\* four are read with run.get and a default
StrictFields == {}

\* a read of the scan raises KeyError
Raises(runs) == \E i \in 1..Len(runs), f \in StrictFields : ~Has(runs[i], f)

\* main, step 5: leaderboard = aggregate_skills(all_skills)
Aggregate ==
    /\ stage = "input"
    /\ IF Raises(all_skills)
          THEN /\ stage' = "failed"
               /\ UNCHANGED <<team_event, leaderboard>>
          ELSE /\ team_event' = GroupRuns(all_skills, Len(all_skills))
               /\ leaderboard' = aggregate_skills(all_skills)
               /\ stage' = "aggregated"
    /\ UNCHANGED <<all_skills, qualified_team_ids, non_qualified, qualified_in_top>>
    /\ UNCHANGED fetchVars
    /\ UNCHANGED mainVars

\* main, step 6, for the qualified set built in step 3; the entries of
\* non_qualified are the entries of leaderboard with bubble_rank added
Filter ==
    /\ stage = "aggregated"
    /\ \E q \in SUBSET RosterTeams :
          /\ qualified_team_ids' = q
          /\ non_qualified' = ReRank(FilterQualified(leaderboard, q))
          /\ qualified_in_top' = FilteredOut(leaderboard, FilterQualified(leaderboard, q))
    /\ stage' = "filtered"
    /\ UNCHANGED <<all_skills, team_event, leaderboard>>
    /\ UNCHANGED fetchVars
    /\ UNCHANGED mainVars

NextAgg == Aggregate

SpecAgg == InitAgg /\ [][NextAgg]_vars

InitFilter ==
    /\ FetchIdle
    /\ MainIdle
    /\ stage = "input"
    /\ all_skills \in FilterStreams
    /\ team_event = <<>>
    /\ leaderboard = <<>>
    /\ qualified_team_ids = {}
    /\ non_qualified = <<>>
    /\ qualified_in_top = 0

NextFilter == Aggregate \/ Filter

SpecFilter == InitFilter /\ [][NextFilter]_vars

\* ========================================================================
\* Properties of the fetch client (specification Spec)
\* ========================================================================
\* the part of log written by the current _get call
CallLog == SubSeq(log, call_base + 1, Len(log))

CountEv(s, e) == Cardinality({i \in 1..Len(s) : s[i].ev = e})

\* pages 1..n of the server, concatenated in server order
RECURSIVE PagesUpTo(_)
PagesUpTo(n) == IF n = 0 THEN <<>> ELSE PagesUpTo(n - 1) \o Payload(n)

\* C1: whenever _get_all_pages returns normally, the returned list is the
\* concatenation of pages 1..N in server order, each page exactly once.
C1_ExactUnion == pc = "returned" => all_data = PagesUpTo(LastPage)

\* C2: 429 responses do not consume the transient-failure budget: inside a
\* _get call the attempts used are the transient failures only, and a call
\* never ends on a 429 response (every 429 is followed by a retry).
C2_RateLimitKeepsBudget ==
    /\ pc = "get" => attempt = CountEv(CallLog, "error")
    /\ (pc # "get" /\ Len(log) > 0) => log[Len(log)].ev # "wait"

\* every response of the current _get call was a transient failure
AllTransient == \A i \in 1..Len(CallLog) : CallLog[i].ev \notin {"ok", "rate_limited"}

FailedRequest(p) == <<Ev("pace", 350), Ev("request", p), Ev("error", p)>>

\* the log of a _get call for page p whose first k attempts failed
ExpectedFailures(p, k) ==
    IF k = 0 THEN <<>>
    ELSE IF k = 1 THEN FailedRequest(p) \o <<Ev("backoff", 1000)>>
    ELSE IF k = 2 THEN FailedRequest(p) \o <<Ev("backoff", 1000)>> \o
                       FailedRequest(p) \o <<Ev("backoff", 2000)>>
    ELSE FailedRequest(p) \o <<Ev("backoff", 1000)>> \o
         FailedRequest(p) \o <<Ev("backoff", 2000)>> \o FailedRequest(p)

\* C3: when every attempt of a _get call fails transiently, the client
\* issues exactly 3 requests, sleeps 1 s after the first failure and 2 s
\* after the second, does not sleep after the third, and the third failure
\* is raised to the caller.
C3_TransientBudget ==
    AllTransient =>
        LET k == CountEv(CallLog, "error")
        IN /\ k <= 3
           /\ CountEv(CallLog, "request") = k
           /\ CallLog = ExpectedFailures(page, k)
           /\ (k = 3) <=> (pc = "raised")

C3_Witness ==
    /\ pc = "raised"
    /\ AllTransient
    /\ CountEv(CallLog, "request") = 3
    /\ page = 2

\* C4: _get hands a value to its caller only if the value is the body of
\* a successful response to this request.
C4_NoFabricatedResult ==
    pc = "page" => /\ log[Len(log)].ev = "ok"
                   /\ result = ServerBody(page)

\* ========================================================================
\* Properties of the aggregation (specification SpecAgg) and of the filter
\* (specification SpecFilter)
\* ========================================================================
\* positions of the runs of team t at event e of kind k in the input
RunsOf(t, e, k) ==
    {i \in 1..Len(all_skills) :
        /\ all_skills[i].team = t
        /\ all_skills[i].event = e
        /\ all_skills[i].type = k}

\* the best score of kind k of team t at event e, 0 when there is no such run
BestScore(t, e, k) ==
    LET seen == {all_skills[i].score : i \in RunsOf(t, e, k)}
    IN IF seen = {} THEN 0 ELSE CHOOSE v \in seen : \A w \in seen : w <= v

EventScore(t, e) == BestScore(t, e, "driver") + BestScore(t, e, "programming")

\* position of the first run of team t at event e; of team t
FirstRun(t, e) ==
    LET at == {i \in 1..Len(all_skills) :
                  all_skills[i].team = t /\ all_skills[i].event = e}
    IN CHOOSE i \in at : \A j \in at : i <= j

FirstRunOfTeam(t) ==
    LET at == {i \in 1..Len(all_skills) : all_skills[i].team = t}
    IN CHOOSE i \in at : \A j \in at : i <= j

\* the events at which team t has a run
EventsOf(t) ==
    {all_skills[i].event : i \in {j \in 1..Len(all_skills) : all_skills[j].team = t}}

TeamsIn == {all_skills[i].team : i \in 1..Len(all_skills)}

\* aggregate_skills has returned and its result is not yet filtered
Aggregated == stage = "aggregated"

\* C5: every leaderboard entry has combined = driver + programming, both
\* being the per-kind best scores of the team at one and the same event,
\* the event the entry reports.
C5_SameEvent ==
    Aggregated =>
        \A i \in 1..Len(leaderboard) :
            LET x == leaderboard[i]
            IN /\ x.combined = x.driver + x.programming
               /\ \E e \in EventsOf(x.team_id) :
                     /\ x.event_name = EventName(e)
                     /\ x.driver = BestScore(x.team_id, e, "driver")
                     /\ x.programming = BestScore(x.team_id, e, "programming")

\* a team whose best driver score and best programming score come from
\* different events, so that mixing events would give a higher sum
C5_Witness ==
    /\ Aggregated
    /\ \E i \in 1..Len(leaderboard) :
          \E e1, e2 \in EventsOf(leaderboard[i].team_id) :
              /\ e1 # e2
              /\ BestScore(leaderboard[i].team_id, e1, "driver")
                 + BestScore(leaderboard[i].team_id, e2, "programming")
                 > leaderboard[i].combined

\* C6: team_event has one group per (team, event) pair of the input; its
\* driver component is the maximum of the group's driver runs and its
\* programming component the maximum of its programming runs, 0 for a kind
\* without a run; a team with programming runs only has driver = 0 and
\* combined = its best programming score.
C6_PerKindMax ==
    Aggregated =>
        /\ \A t \in TeamsIn : \A e \in EventsOf(t) :
              Cardinality({i \in 1..Len(team_event) :
                  team_event[i].team_id = t /\ team_event[i].event_id = e}) = 1
        /\ \A i \in 1..Len(team_event) :
              LET g == team_event[i]
              IN /\ g.event_id \in EventsOf(g.team_id)
                 /\ g.driver = BestScore(g.team_id, g.event_id, "driver")
                 /\ g.programming = BestScore(g.team_id, g.event_id, "programming")
        /\ \A i \in 1..Len(leaderboard) :
              LET x == leaderboard[i]
              IN (\A j \in 1..Len(all_skills) :
                      all_skills[j].team = x.team_id => all_skills[j].type = "programming")
                 => /\ x.driver = 0
                    /\ \E e \in EventsOf(x.team_id) :
                          x.combined = BestScore(x.team_id, e, "programming")

\* a group whose driver runs are a higher score followed by a lower one
C6_Witness ==
    /\ Aggregated
    /\ \E i \in 1..Len(team_event) :
          LET g == team_event[i]
              d == RunsOf(g.team_id, g.event_id, "driver")
          IN /\ \E a, b \in d : a < b /\ all_skills[a].score > all_skills[b].score
             /\ RunsOf(g.team_id, g.event_id, "programming") = {}

\* C7: the entry of a team is taken from the group with the highest
\* combined score among the team's groups, and among several such groups
\* from the one whose first run is earliest in the input.
C7_BestGroupFirstSeen ==
    Aggregated =>
        \A i \in 1..Len(leaderboard) :
            LET x == leaderboard[i]
                t == x.team_id
            IN \E e \in EventsOf(t) :
                  /\ x.event_name = EventName(e)
                  /\ x.driver = BestScore(t, e, "driver")
                  /\ x.programming = BestScore(t, e, "programming")
                  /\ x.combined = EventScore(t, e)
                  /\ \A f \in EventsOf(t) \ {e} :
                        \/ EventScore(t, f) < EventScore(t, e)
                        \/ /\ EventScore(t, f) = EventScore(t, e)
                           /\ FirstRun(t, e) < FirstRun(t, f)

\* a team with two groups of equal, positive combined score
C7_Witness ==
    /\ Aggregated
    /\ \E i \in 1..Len(leaderboard) :
          \E e1, e2 \in EventsOf(leaderboard[i].team_id) :
              /\ e1 # e2
              /\ EventScore(leaderboard[i].team_id, e1) = leaderboard[i].combined
              /\ EventScore(leaderboard[i].team_id, e2) = leaderboard[i].combined
              /\ leaderboard[i].combined > 0

\* C8: along the leaderboard the combined score is non-increasing, between
\* entries of equal combined score the programming score is non-increasing,
\* and entries equal on both appear in the order in which their teams first
\* appear in the input.
C8_Ordering ==
    Aggregated =>
        \A i \in 1..(Len(leaderboard) - 1) :
            LET a == leaderboard[i]
                b == leaderboard[i + 1]
            IN /\ a.combined >= b.combined
               /\ a.combined = b.combined => a.programming >= b.programming
               /\ (a.combined = b.combined /\ a.programming = b.programming)
                     => FirstRunOfTeam(a.team_id) < FirstRunOfTeam(b.team_id)

\* two adjacent entries equal on both keys, the first one of the team that
\* has the larger identifier and reached its score after the other team did
C8_Witness ==
    /\ Aggregated
    /\ \E i \in 1..(Len(leaderboard) - 1) :
          LET a == leaderboard[i]
              b == leaderboard[i + 1]
          IN /\ a.combined = b.combined
             /\ a.programming = b.programming
             /\ a.team_id > b.team_id
             /\ Cardinality(EventsOf(a.team_id)) = 2

\* C9: the leaderboard has exactly one entry per team identifier of the
\* input, and the entry at position i has rank i.
C9_OneEntryPerTeamDenseRanks ==
    Aggregated =>
        /\ {leaderboard[i].team_id : i \in 1..Len(leaderboard)} = TeamsIn
        /\ Len(leaderboard) = Cardinality(TeamsIn)
        /\ \A i \in 1..Len(leaderboard) : leaderboard[i].rank = i

\* three runs of two teams with equal scores, one of them with runs at two events
C9_Witness ==
    /\ Aggregated
    /\ Len(leaderboard) = 2
    /\ Len(all_skills) = 3
    /\ leaderboard[1].combined = leaderboard[2].combined
    /\ leaderboard[1].programming = leaderboard[2].programming
    /\ \E t \in TeamsIn : Cardinality(EventsOf(t)) = 2

\* positions of the leaderboard entries that the filter keeps
KeptPositions == {i \in 1..Len(leaderboard) : leaderboard[i].team_id \notin qualified_team_ids}

\* C10: the bubble list is the subsequence of the leaderboard of the entries
\* whose team is not qualified, in leaderboard order; its k-th entry has
\* bubble rank k; the reported count is the number of leaderboard entries
\* whose team is qualified; a set with every leaderboard team gives an
\* empty bubble list.
C10_BubbleList ==
    stage = "filtered" =>
        /\ Len(non_qualified) = Cardinality(KeptPositions)
        /\ \A i \in KeptPositions :
              LET k == Cardinality({j \in KeptPositions : j <= i})
              IN /\ non_qualified[k].team_id = leaderboard[i].team_id
                 /\ non_qualified[k].rank = leaderboard[i].rank
                 /\ non_qualified[k].combined = leaderboard[i].combined
        /\ \A k \in 1..Len(non_qualified) : non_qualified[k].bubble_rank = k
        /\ qualified_in_top =
              Cardinality({i \in 1..Len(leaderboard) :
                              leaderboard[i].team_id \in qualified_team_ids})
        /\ (\A i \in 1..Len(leaderboard) : leaderboard[i].team_id \in qualified_team_ids)
              => non_qualified = <<>>

\* of three teams the second is qualified, the first and the third are not,
\* and a team outside the leaderboard is qualified as well
C10_Witness ==
    /\ stage = "filtered"
    /\ Len(leaderboard) = 3
    /\ leaderboard[1].team_id \notin qualified_team_ids
    /\ leaderboard[2].team_id \in qualified_team_ids
    /\ leaderboard[3].team_id \notin qualified_team_ids
    /\ Len(non_qualified) = 2
    /\ qualified_in_top = 1
    /\ \E t \in qualified_team_ids : t \notin TeamsIn


\* the fields of a leaderboard entry
EntryFields == {"team_id", "team_number", "event_name", "driver", "programming",
                "combined", "rank"}

\* the leaderboard position of the k-th entry of the bubble list
KeptAt(k) ==
    CHOOSE i \in KeptPositions : Cardinality({j \in KeptPositions : j <= i}) = k

\* C11: the filter changes no field of a remaining entry and only adds the
\* bubble rank; a bubble rank is at most the original rank, and equal to it
\* exactly when no qualified team is ranked above the entry; with an empty
\* qualified set the bubble list is the leaderboard and every bubble rank is
\* the original rank.
C11_FilterFrame ==
    stage = "filtered" =>
        /\ \A k \in 1..Len(non_qualified) :
              LET b == non_qualified[k]
                  x == leaderboard[KeptAt(k)]
              IN /\ DOMAIN b = EntryFields \cup {"bubble_rank"}
                 /\ DOMAIN x = EntryFields
                 /\ \A f \in EntryFields : b[f] = x[f]
                 /\ b.bubble_rank <= b.rank
                 /\ (b.bubble_rank = b.rank) <=>
                       (\A j \in 1..(KeptAt(k) - 1) :
                            leaderboard[j].team_id \notin qualified_team_ids)
        /\ qualified_team_ids = {} =>
              /\ Len(non_qualified) = Len(leaderboard)
              /\ \A k \in 1..Len(leaderboard) :
                    /\ \A f \in EntryFields : non_qualified[k][f] = leaderboard[k][f]
                    /\ non_qualified[k].bubble_rank = leaderboard[k].rank

\* of three teams the second is qualified: the first keeps its rank as bubble
\* rank, the third moves up from rank 3 to bubble rank 2
C11_Witness ==
    /\ stage = "filtered"
    /\ Len(leaderboard) = 3
    /\ qualified_team_ids = {leaderboard[2].team_id}
    /\ Len(non_qualified) = 2
    /\ non_qualified[1].rank = 1 /\ non_qualified[1].bubble_rank = 1
    /\ non_qualified[2].rank = 3 /\ non_qualified[2].bubble_rank = 2


\* ========================================================================
\* Properties of the pagination (specification SpecPages)
\* ========================================================================
\* the pages requested so far, in order
Requested == [i \in 1..CountEv(log, "request") |->
                 log[CHOOSE j \in 1..Len(log) :
                        /\ log[j].ev = "request"
                        /\ Cardinality({h \in 1..j : log[h].ev = "request"}) = i].arg]

\* the server reports for every page its own number
HonestCounters == \A p \in 1..LastPage : srv_cur[p] = p

\* the payloads of the first n requests, concatenated
RECURSIVE Received(_)
Received(n) == IF n = 0 THEN <<>> ELSE Received(n - 1) \o Payload(Requested[n])

\* the responses _get_all_pages has taken into all_data
Processed == IF pc = "page" THEN Len(Requested) - 1 ELSE Len(Requested)

\* C12: with every request answered successfully, current_page equal to the
\* requested page and last_page = N, _get_all_pages issues exactly N
\* requests, for pages 1..N in that order, and returns the concatenation of
\* those N payloads, whatever the total field carries.
C12_ExactlyNPages ==
    HonestCounters =>
        /\ \A i \in 1..Len(Requested) : Requested[i] = i
        /\ Len(Requested) <= LastPage
        /\ request_count = Len(Requested)
        /\ pc = "returned" => /\ Len(Requested) = LastPage
                              /\ all_data = PagesUpTo(LastPage)

\* two pages of two records each, fetched from a server reporting total = 0
C12_Witness ==
    /\ pc = "returned"
    /\ HonestCounters
    /\ LastPage = 2
    /\ srv_total = "zero"
    /\ Len(all_data) = 4
    /\ progress.total = 0 /\ progress.items = 4

\* C13: only the page counters of the last response decide how
\* _get_all_pages goes on: after current < last the next request is for page
\* current + 1, current being the reported one; after the first response
\* with current >= last there is no further request; a response with absent
\* or empty data adds no record, raises nothing and neither stops nor fails
\* the pagination.
C13_CountersDecide ==
    /\ pc # "raised"
    /\ Len(Requested) >= 1 => Requested[1] = 1
    /\ \A i \in 2..Len(Requested) :
          /\ srv_cur[Requested[i - 1]] < LastPage
          /\ Requested[i] = srv_cur[Requested[i - 1]] + 1
    /\ all_data = Received(Processed)
    /\ pc = "returned" => srv_cur[Requested[Len(Requested)]] >= LastPage
    /\ (pc = "get" /\ Len(Requested) >= 1) => srv_cur[Requested[Len(Requested)]] < LastPage

\* page 1 comes without data, page 2 reports current_page = 1 once too
\* often: page 2 is requested again and its records are taken twice
C13_Witness ==
    /\ LastPage = 2
    /\ srv_lens = <<-1, 2>>
    /\ srv_cur = <<1, 1>>
    /\ Requested = <<1, 2, 2>>
    /\ pc = "get"
    /\ Len(all_data) = 4


\* ========================================================================
\* Properties of the pacing (specification SpecCalls)
\* ========================================================================
\* C14: every outbound request is directly preceded by a pacing delay, so
\* between two requests of the client there is always a pacing delay,
\* whether the earlier request succeeded, failed or was rate-limited, and
\* whether the later one is a retry, another page or another call.
C14_Pacing ==
    /\ \A i \in 1..Len(log) :
          log[i].ev = "request" => /\ i > 1
                                   /\ log[i - 1] = Ev("pace", 350)
    /\ \A i, j \in 1..Len(log) :
          (i < j /\ log[i].ev = "request" /\ log[j].ev = "request")
             => \E k \in (i + 1)..(j - 1) : log[k].ev = "pace"

\* a call that raised after three failures, followed by a call for the other
\* page whose first attempt was rate-limited and whose second succeeded
C14_Witness ==
    /\ CountEv(log, "request") = 5
    /\ CountEv(log, "error") = 3
    /\ CountEv(log, "rate_limited") = 1
    /\ log[Len(log)] = Ev("ok", 2)
    /\ pc = "page"


\* ------------------------------------------------------------------------
\* main: the pipeline of steps 1 to 7
\* ------------------------------------------------------------------------
V5RC_PROGRAM_ID == 1
GRADE_FILTER == "High School"
CACHE_HOURS == 6
TOP_N == 10

\* ---- what the server holds ---------------------------------------------------
SeasonLists == {<<>>, <<1>>, <<1, 2>>}

EventRecord(i, t) == [id |-> i, event_type |-> t]
EventLists ==
    {<<>>,
     <<EventRecord(1, "tournament")>>,
     <<EventRecord(1, "workshop"), EventRecord(2, "tournament")>>,
     <<EventRecord(1, "tournament"), EventRecord(2, "tournament")>>}

\* a World-level event: its program is absent or has the id p
WorldsEvent(i, h, p) == [id |-> i, has_program |-> h, program |-> p]
WorldsLists ==
    {<<>>,
     <<WorldsEvent(8, TRUE, V5RC_PROGRAM_ID)>>,
     <<WorldsEvent(8, FALSE, 0)>>,
     <<WorldsEvent(8, TRUE, 2), WorldsEvent(9, TRUE, V5RC_PROGRAM_ID)>>,
     <<WorldsEvent(8, TRUE, V5RC_PROGRAM_ID), WorldsEvent(9, TRUE, V5RC_PROGRAM_ID)>>,
     <<WorldsEvent(8, TRUE, 2), WorldsEvent(9, FALSE, 0)>>}

\* ---- one call of _get, as main sees it: the body of the response, the empty
\* ---- dictionary after a rate limit on the last attempt, or the exception
GetOutcomes == {"ok", "empty", "raise"}
GetCost(o) == IF o = "ok" THEN 1..MAX_RETRIES ELSE {MAX_RETRIES}
QueryBody(o, list) ==
    IF o = "ok"
        THEN [has_data |-> TRUE, data |-> list, has_meta |-> FALSE,
              current_page |-> 0, last_page |-> 0, has_total |-> FALSE, total |-> 0]
        ELSE EmptyDict
Query(o, list) == [outcome |-> o, data |-> ResultData(QueryBody(o, list))]
IoEv(o, k, i, g) == [op |-> o, kind |-> k, id |-> i, got |-> g]

\* get_active_season: seasons[-1]
ActiveSeason_m(seasons) == seasons[1]

ActiveSeason(seasons) == seasons[Len(seasons)]

Abort(e) ==
    /\ mpc' = "aborted"
    /\ error' = e

\* main, step 1: season = api.get_active_season()
FindSeason ==
    /\ mpc = "season"
    /\ \E o \in GetOutcomes, served \in SeasonLists :
          /\ \E n \in GetCost(o) : request_count' = request_count + n
          /\ season_result' = Query(o, served)
          /\ io' = io \o <<IoEv("query", "season", 0, "none")>>
          /\ IF o = "raise"
                THEN Abort("RequestException") /\ UNCHANGED season
                ELSE IF season_result'.data = <<>>
                        THEN Abort("NoActiveSeason") /\ UNCHANGED season
                        ELSE /\ season' = ActiveSeason(season_result'.data)
                             /\ mpc' = "events"
                             /\ UNCHANGED error
    /\ UNCHANGED <<cache, srv_pages, events, worlds_result, worlds_event,
                   worlds_teams, todo, skill_log, report>>
    /\ UNCHANGED <<pc, srvVars, page, attempt, result, all_data, log, call_base, progress>>
    /\ UNCHANGED aggVars


\* ---- the cache ---------------------------------------------------------------
\* a cache file: whether it exists, its age in hours and the data it holds
NoFile == [exists |-> FALSE, age |-> 0, data |-> <<>>]
File(a, d) == [exists |-> TRUE, age |-> a, data |-> d]

\* what a file written by an earlier run may hold, by kind of dataset
CachedData(kind) ==
    CASE kind = "events" -> <<EventRecord(2, "tournament")>>
      [] kind = "worlds_teams" -> <<[id |-> 2, has_grade |-> TRUE, grade |-> GRADE_FILTER]>>
      [] kind = "skills" -> <<[team |-> 2, event |-> 2, type |-> "driver", score |-> 1]>>

\* the files main may find under a key: none, one that is too old, a recent
\* one that holds the empty list, a recent one that holds data
CacheFiles(kind) ==
    {NoFile, File(CACHE_HOURS + 1, CachedData(kind)), File(1, <<>>), File(1, CachedData(kind))}

NoneLoaded == [hit |-> FALSE, data |-> <<>>]

\* load_cache: None for a missing file and for one older than max_age_hours
load_cache(f, max_age_hours) ==
    IF ~f.exists THEN NoneLoaded
    ELSE IF f.age * 3600 > max_age_hours * 3600 THEN NoneLoaded
    ELSE [hit |-> TRUE, data |-> f.data]

\* "if events_cache:": None and the empty list are both false
Truthy(loaded) == loaded.hit /\ loaded.data # <<>>

Got(loaded) == IF ~loaded.hit THEN "none" ELSE IF loaded.data = <<>> THEN "empty" ELSE "data"

\* the cache directory with the file f under the key (kind, id)
PutFile(c, k, i, f) ==
    {e \in c : ~(e.kind = k /\ e.id = i)} \cup {[kind |-> k, id |-> i, file |-> f]}

\* save_cache: the file is written now and holds the data
save_cache(c, k, i, d) == PutFile(c, k, i, File(0, d))

\* ---- _get_all_pages as main uses it ------------------------------------------
RECURSIVE Flatten(_)
\* the records of all pages, in page order
Flatten(pages) == IF pages = <<>> THEN <<>> ELSE Head(pages) \o Flatten(Tail(pages))

Items(pages) == Len(Flatten(pages))

\* the body of page p of the collection that is being fetched
MainBody(p) ==
    [has_data |-> TRUE, data |-> srv_pages[p], has_meta |-> TRUE,
     current_page |-> p, last_page |-> Len(srv_pages),
     has_total |-> TRUE, total |-> Items(srv_pages)]

Fetching == {"events_fetch", "roster_fetch", "skills_fetch"}

\* the first call of _get_all_pages on the collection coll
StartFetch(coll) ==
    /\ srv_pages' = coll
    /\ pc' = "get"
    /\ page' = 1
    /\ all_data' = <<>>
    /\ result' = NoResult
    /\ UNCHANGED <<srvVars, attempt, request_count, log, call_base, progress>>

\* one call of _get inside _get_all_pages
MainGet ==
    /\ mpc \in Fetching
    /\ pc = "get"
    /\ \E o \in GetOutcomes :
          /\ \E n \in GetCost(o) : request_count' = request_count + n
          /\ IF o = "raise"
                THEN pc' = "raised" /\ UNCHANGED result
                ELSE /\ result' = IF o = "ok" THEN MainBody(page) ELSE EmptyDict
                     /\ pc' = "page"
    /\ UNCHANGED <<srvVars, page, attempt, all_data, log, call_base, progress>>
    /\ UNCHANGED aggVars
    /\ UNCHANGED mainVars

\* main, step 2: load_cache and, without a usable value, the start of
\* get_season_events
LoadEvents ==
    /\ mpc = "events"
    /\ \E f \in CacheFiles("events") :
          LET loaded == load_cache(f, CACHE_HOURS)
          IN /\ cache' = PutFile(cache, "events", season, f)
             /\ IF Truthy(loaded)
                   THEN /\ events' = loaded.data
                        /\ io' = io \o <<IoEv("load", "events", season, Got(loaded))>>
                        /\ mpc' = "worlds"
                        /\ UNCHANGED <<srv_pages, fetchVars>>
                   ELSE /\ io' = io \o <<IoEv("load", "events", season, Got(loaded)),
                                         IoEv("fetch", "events", season, "none")>>
                        /\ mpc' = "events_fetch"
                        /\ \E list \in EventLists : StartFetch(<<list>>)
                        /\ UNCHANGED events
    /\ UNCHANGED <<season_result, season, worlds_result, worlds_event,
                   worlds_teams, todo, skill_log, error, report>>
    /\ UNCHANGED aggVars

\* main, step 2: events = api.get_season_events(season_id); save_cache(...)
EventsFetched ==
    /\ mpc = "events_fetch"
    /\ pc = "returned"
    /\ events' = all_data
    /\ cache' = save_cache(cache, "events", season, all_data)
    /\ io' = io \o <<IoEv("save", "events", season, "none")>>
    /\ mpc' = "worlds"
    /\ pc' = "idle"
    /\ UNCHANGED <<srvVars, page, attempt, result, all_data, request_count, log,
                   call_base, progress>>
    /\ UNCHANGED <<srv_pages, season_result, season, worlds_result, worlds_event,
                   worlds_teams, todo, skill_log, error, report>>
    /\ UNCHANGED aggVars

\* the exception of get_season_events or get_event_teams leaves main
FetchFailed ==
    /\ mpc \in {"events_fetch", "roster_fetch"}
    /\ pc = "raised"
    /\ Abort("RequestException")
    /\ UNCHANGED fetchVars
    /\ UNCHANGED <<cache, io, srv_pages, season_result, season, events, worlds_result,
                   worlds_event, worlds_teams, todo, skill_log, report>>
    /\ UNCHANGED aggVars


\* ---- step 3: the championship event and its roster ---------------------------
IsV5RC(e) == e.has_program /\ e.program = V5RC_PROGRAM_ID

\* the first World-level event is taken whatever its program is
get_worlds_event_m(evs) == IF evs = <<>> THEN NoEvent ELSE evs[1]

\* get_worlds_event: the first event of the program, else the first event,
\* else None
get_worlds_event(evs) ==
    IF \E k \in 1..Len(evs) : IsV5RC(evs[k])
        THEN evs[CHOOSE k \in 1..Len(evs) :
                    IsV5RC(evs[k]) /\ \A j \in 1..(k - 1) : ~IsV5RC(evs[j])]
        ELSE IF evs # <<>> THEN evs[1] ELSE NoEvent

\* "if worlds_event:"
Found(e) == e # NoEvent

\* main, step 3: worlds_event = api.get_worlds_event(season_id)
FindWorlds ==
    /\ mpc = "worlds"
    /\ \E o \in GetOutcomes, served \in WorldsLists :
          /\ \E n \in GetCost(o) : request_count' = request_count + n
          /\ worlds_result' = Query(o, served)
          /\ IF o = "raise"
                THEN /\ Abort("RequestException")
                     /\ io' = io \o <<IoEv("query", "worlds_event", season, "none")>>
                     /\ UNCHANGED worlds_event
                ELSE /\ worlds_event' = get_worlds_event(worlds_result'.data)
                     /\ IF Found(worlds_event')
                           THEN /\ io' = io \o <<IoEv("query", "worlds_event", season, "none")>>
                                /\ mpc' = "roster"
                           ELSE /\ io' = io \o <<IoEv("query", "worlds_event", season, "none"),
                                                 IoEv("warn", "worlds_event", season, "none")>>
                                /\ mpc' = "skills"
                     /\ UNCHANGED error
    /\ UNCHANGED <<cache, srv_pages, season_result, season, events,
                   worlds_teams, todo, skill_log, report>>
    /\ UNCHANGED <<pc, srvVars, page, attempt, result, all_data, log, call_base, progress>>
    /\ UNCHANGED aggVars

\* the teams of a roster: the grade is absent, empty or a grade level
Grades == {GRADE_FILTER, "Middle School", ""}
TeamRecord(i, h, g) == [id |-> i, has_grade |-> h, grade |-> g]
RosterRecords ==
    {TeamRecord(i, TRUE, g) : i \in RosterTeams, g \in Grades} \cup
    {TeamRecord(i, FALSE, "") : i \in RosterTeams}

\* the rosters the server holds in a run of the whole pipeline
RosterLists ==
    {<<>>,
     <<TeamRecord(1, TRUE, GRADE_FILTER), TeamRecord(2, TRUE, "Middle School")>>,
     <<TeamRecord(3, FALSE, ""), TeamRecord(1, TRUE, "Middle School")>>}

\* team.get("grade", "")
GradeOf(t) == IF t.has_grade THEN t.grade ELSE ""

\* a team without a grade is not taken as qualified
IsQualified_m(t) == GradeOf(t) = GRADE_FILTER

\* "if grade == GRADE_FILTER or not grade"
IsQualified(t) == GradeOf(t) = GRADE_FILTER \/ GradeOf(t) = ""

\* the set built by the loop over worlds_teams
QualifiedIds(teams) == {teams[k].id : k \in {j \in 1..Len(teams) : IsQualified(teams[j])}}

\* main, step 3: load_cache and, without a usable value, the start of
\* get_event_teams
LoadRoster ==
    /\ mpc = "roster"
    /\ \E f \in CacheFiles("worlds_teams") :
          LET loaded == load_cache(f, CACHE_HOURS)
          IN /\ cache' = PutFile(cache, "worlds_teams", worlds_event.id, f)
             /\ IF Truthy(loaded)
                   THEN /\ worlds_teams' = loaded.data
                        /\ io' = io \o <<IoEv("load", "worlds_teams", worlds_event.id, Got(loaded))>>
                        /\ mpc' = "qualify"
                        /\ UNCHANGED <<srv_pages, fetchVars>>
                   ELSE /\ io' = io \o <<IoEv("load", "worlds_teams", worlds_event.id, Got(loaded)),
                                         IoEv("fetch", "worlds_teams", worlds_event.id, "none")>>
                        /\ mpc' = "roster_fetch"
                        /\ \E list \in RosterLists : StartFetch(<<list>>)
                        /\ UNCHANGED worlds_teams
    /\ UNCHANGED <<season_result, season, events, worlds_result, worlds_event,
                   todo, skill_log, error, report>>
    /\ UNCHANGED aggVars

\* main, step 3: worlds_teams = api.get_event_teams(worlds_id); save_cache(...)
RosterFetched ==
    /\ mpc = "roster_fetch"
    /\ pc = "returned"
    /\ worlds_teams' = all_data
    /\ cache' = save_cache(cache, "worlds_teams", worlds_event.id, all_data)
    /\ io' = io \o <<IoEv("save", "worlds_teams", worlds_event.id, "none")>>
    /\ mpc' = "qualify"
    /\ pc' = "idle"
    /\ UNCHANGED <<srvVars, page, attempt, result, all_data, request_count, log,
                   call_base, progress>>
    /\ UNCHANGED <<srv_pages, season_result, season, events, worlds_result,
                   worlds_event, todo, skill_log, error, report>>
    /\ UNCHANGED aggVars

\* main, step 3: the loop that fills qualified_team_ids
Qualify ==
    /\ mpc = "qualify"
    /\ qualified_team_ids' = QualifiedIds(worlds_teams)
    /\ mpc' = "skills"
    /\ UNCHANGED <<stage, all_skills, team_event, leaderboard, non_qualified,
                   qualified_in_top>>
    /\ UNCHANGED fetchVars
    /\ UNCHANGED <<cache, io, srv_pages, season_result, season, events, worlds_result,
                   worlds_event, worlds_teams, todo, skill_log, error, report>>


\* ---- step 4: the skills runs of every event ----------------------------------
Run(t, e, ty, s) == [team |-> t, event |-> e, type |-> ty, score |-> s]

\* the runs of event e on the server: two pages for event 1, one page for
\* the others
SkillPages(e) ==
    IF e = 1 THEN << <<Run(1, 1, "driver", 1)>>, <<Run(3, 1, "programming", 1)>> >>
    ELSE << <<Run(e, e, "driver", 1)>> >>

\* skills_events: workshops are left out
SkillsEvents(evs) == SelectSeq(evs, LAMBDA e : e.event_type # "workshop")

\* main, step 4: load_cache and, without a usable value, the start of the loop
LoadSkills ==
    /\ mpc = "skills"
    /\ \E f \in CacheFiles("skills") :
          LET loaded == load_cache(f, CACHE_HOURS)
          IN /\ cache' = PutFile(cache, "skills", season, f)
             /\ IF Truthy(loaded)
                   THEN /\ all_skills' = loaded.data
                        /\ io' = io \o <<IoEv("load", "skills", season, Got(loaded))>>
                        /\ mpc' = "compute"
                        /\ stage' = "input"
                        /\ UNCHANGED todo
                   ELSE /\ all_skills' = <<>>
                        /\ io' = io \o <<IoEv("load", "skills", season, Got(loaded)),
                                         IoEv("fetch", "skills", season, "none")>>
                        /\ todo' = SkillsEvents(events)
                        /\ mpc' = "skills_loop"
                        /\ UNCHANGED stage
    /\ UNCHANGED <<team_event, leaderboard, qualified_team_ids, non_qualified,
                   qualified_in_top>>
    /\ UNCHANGED fetchVars
    /\ UNCHANGED <<srv_pages, season_result, season, events, worlds_result,
                   worlds_event, worlds_teams, skill_log, error, report>>

\* main, step 4: the next event of the loop, api.get_event_skills(eid) begins
FetchSkills ==
    /\ mpc = "skills_loop"
    /\ todo # <<>>
    /\ StartFetch(SkillPages(Head(todo).id))
    /\ mpc' = "skills_fetch"
    /\ UNCHANGED <<cache, io, season_result, season, events, worlds_result,
                   worlds_event, worlds_teams, todo, skill_log, error, report>>
    /\ UNCHANGED aggVars

\* how the fetch of the first event of todo ended
Outcome(r) ==
    [event |-> Head(todo).id, runs |-> Flatten(srv_pages), raised |-> r,
     kept |-> IF r THEN <<>> ELSE all_data]

\* main, step 4: all_skills.extend(skills)
SkillsFetched ==
    /\ mpc = "skills_fetch"
    /\ pc = "returned"
    /\ all_skills' = all_skills \o all_data
    /\ skill_log' = Append(skill_log, Outcome(FALSE))
    /\ todo' = Tail(todo)
    /\ mpc' = "skills_loop"
    /\ pc' = "idle"
    /\ UNCHANGED <<srvVars, page, attempt, result, all_data, request_count, log,
                   call_base, progress>>
    /\ UNCHANGED <<stage, team_event, leaderboard, qualified_team_ids, non_qualified,
                   qualified_in_top>>
    /\ UNCHANGED <<cache, io, srv_pages, season_result, season, events, worlds_result,
                   worlds_event, worlds_teams, error, report>>

\* the exception of one event is not caught and ends main
SkillsFailed_m ==
    /\ mpc = "skills_fetch"
    /\ pc = "raised"
    /\ Abort("RequestException")
    /\ skill_log' = Append(skill_log, Outcome(TRUE))
    /\ UNCHANGED fetchVars
    /\ UNCHANGED <<cache, io, srv_pages, season_result, season, events, worlds_result,
                   worlds_event, worlds_teams, todo, report>>
    /\ UNCHANGED aggVars

\* main, step 4: "except Exception": the event is reported and the loop goes on
SkillsFailed ==
    /\ mpc = "skills_fetch"
    /\ pc = "raised"
    /\ skill_log' = Append(skill_log, Outcome(TRUE))
    /\ io' = io \o <<IoEv("warn", "event_skills", Head(todo).id, "none")>>
    /\ todo' = Tail(todo)
    /\ mpc' = "skills_loop"
    /\ pc' = "idle"
    /\ UNCHANGED <<srvVars, page, attempt, result, all_data, request_count, log,
                   call_base, progress>>
    /\ UNCHANGED <<cache, srv_pages, season_result, season, events, worlds_result,
                   worlds_event, worlds_teams, error, report>>
    /\ UNCHANGED aggVars

\* main, step 4: after the loop, save_cache(f"skills_{season_id}.json", all_skills)
SaveSkills ==
    /\ mpc = "skills_loop"
    /\ todo = <<>>
    /\ cache' = save_cache(cache, "skills", season, all_skills)
    /\ io' = io \o <<IoEv("save", "skills", season, "none")>>
    /\ mpc' = "compute"
    /\ stage' = "input"
    /\ UNCHANGED <<all_skills, team_event, leaderboard, qualified_team_ids,
                   non_qualified, qualified_in_top>>
    /\ UNCHANGED fetchVars
    /\ UNCHANGED <<srv_pages, season_result, season, events, worlds_result,
                   worlds_event, worlds_teams, todo, skill_log, error, report>>

\* main, step 6, with the qualified set of step 3
MainFilter ==
    /\ mpc = "compute"
    /\ stage = "aggregated"
    /\ non_qualified' = ReRank(FilterQualified(leaderboard, qualified_team_ids))
    /\ qualified_in_top' =
          FilteredOut(leaderboard, FilterQualified(leaderboard, qualified_team_ids))
    /\ stage' = "filtered"
    /\ UNCHANGED <<all_skills, team_event, leaderboard, qualified_team_ids>>
    /\ UNCHANGED fetchVars
    /\ UNCHANGED mainVars

\* non_qualified[:top_n]
TopRows(nq, n) == SubSeq(nq, 1, IF Len(nq) < n THEN Len(nq) ELSE n)

\* main, step 7: the report is generated and written
WriteReport ==
    /\ mpc = "compute"
    /\ stage = "filtered"
    /\ report' = [written |-> TRUE, rows |-> TopRows(non_qualified, TOP_N),
                  total_teams |-> Len(leaderboard),
                  worlds_qualified_count |-> Cardinality(qualified_team_ids)]
    /\ mpc' = "done"
    /\ UNCHANGED <<cache, io, srv_pages, season_result, season, events, worlds_result,
                   worlds_event, worlds_teams, todo, skill_log, error>>
    /\ UNCHANGED fetchVars
    /\ UNCHANGED aggVars

\* main starts: nothing is fetched, the cache directory is as earlier runs left it
InitMain ==
    /\ FetchIdle
    /\ AggIdle
    /\ mpc = "season"
    /\ cache = {}
    /\ io = <<>>
    /\ srv_pages = <<>>
    /\ season_result = NoQuery
    /\ season = NoSeason
    /\ events = <<>>
    /\ worlds_result = NoQuery
    /\ worlds_event = NoEvent
    /\ worlds_teams = <<>>
    /\ todo = <<>>
    /\ skill_log = <<>>
    /\ error = "none"
    /\ report = NoReport

NextMain ==
    \/ FindSeason
    \/ LoadEvents
    \/ EventsFetched
    \/ FetchFailed
    \/ FindWorlds
    \/ LoadRoster
    \/ RosterFetched
    \/ Qualify
    \/ LoadSkills
    \/ FetchSkills
    \/ SkillsFetched
    \/ SkillsFailed
    \/ SaveSkills
    \/ MainGet
    \/ PageStep
    \/ Aggregate
    \/ MainFilter
    \/ WriteReport

SpecMain == InitMain /\ [][NextMain]_vars


\* ------------------------------------------------------------------------
\* Properties of main
\* ------------------------------------------------------------------------
\* the seasons query returned, with or without seasons
SeasonsReturned == season_result.outcome \in {"ok", "empty"}

\* C17: when the seasons query returns no season, main ends with the
\* no-active-season error after that single query: no cache file is read or
\* written, nothing else is fetched and no report is written; when it returns
\* seasons, the last one of the list is the season of the run
C17_NoActiveSeason ==
    /\ (SeasonsReturned /\ season_result.data = <<>>) =>
          /\ mpc = "aborted"
          /\ error = "NoActiveSeason"
          /\ io = <<IoEv("query", "season", 0, "none")>>
          /\ cache = {}
          /\ events = <<>> /\ worlds_teams = <<>> /\ all_skills = <<>>
          /\ ~report.written
    /\ (SeasonsReturned /\ season_result.data # <<>>) =>
          /\ season = season_result.data[Len(season_result.data)]
          /\ error # "NoActiveSeason"

C17_Witness ==
    /\ mpc = "aborted"
    /\ error = "NoActiveSeason"
    /\ season_result.outcome = "ok"


\* the query of get_worlds_event returned, with or without events
WorldsReturned == worlds_result.outcome \in {"ok", "empty"}

\* the team ids of a list of entries, in order
TeamIds(lb) == [k \in 1..Len(lb) |-> lb[k].team_id]

\* C18: get_worlds_event returns the first returned event whose program id is
\* the target program, the first returned event when none matches, and no
\* event for an empty result; with no event main warns, reads and fetches no
\* roster, keeps the qualified set empty, and the report it writes lists the
\* whole leaderboard
C18_ChampionshipEvent ==
    WorldsReturned =>
        LET evs == worlds_result.data
            matches == {k \in 1..Len(evs) : evs[k].has_program /\ evs[k].program = 1}
        IN /\ \A k \in matches :
                 (\A j \in matches : k <= j) => worlds_event = evs[k]
           /\ (matches = {} /\ evs # <<>>) => worlds_event = evs[1]
           /\ evs = <<>> =>
                 /\ worlds_event = NoEvent
                 /\ error = "none"
                 /\ \E i \in 1..Len(io) : io[i].op = "warn" /\ io[i].kind = "worlds_event"
                 /\ \A i \in 1..Len(io) : io[i].kind # "worlds_teams"
                 /\ worlds_teams = <<>>
                 /\ qualified_team_ids = {}
                 /\ report.written =>
                       /\ TeamIds(report.rows) = TeamIds(leaderboard)
                       /\ report.worlds_qualified_count = 0

C18_Witness ==
    /\ report.written
    /\ worlds_result.outcome = "ok"
    /\ worlds_event = NoEvent
    /\ Len(leaderboard) >= 2


\* ---- the grade filter of step 3 on any roster --------------------------------
\* a team is listed once in a roster
DistinctIds(teams) ==
    \A j, k \in 1..Len(teams) : teams[j].id = teams[k].id => j = k

Rosters == {r \in SeqsUpTo(RosterRecords, MaxRoster) : DistinctIds(r)}

\* main has obtained the roster, from the cache or from the server
InitRoster ==
    /\ FetchIdle
    /\ AggIdle
    /\ mpc = "qualify"
    /\ worlds_teams \in Rosters
    /\ cache = {}
    /\ io = <<>>
    /\ srv_pages = <<>>
    /\ season_result = NoQuery
    /\ season = NoSeason
    /\ events = <<>>
    /\ worlds_result = NoQuery
    /\ worlds_event = NoEvent
    /\ todo = <<>>
    /\ skill_log = <<>>
    /\ error = "none"
    /\ report = NoReport

NextRoster == Qualify

SpecRoster == InitRoster /\ [][NextRoster]_vars

\* the entry of a team on a leaderboard, as far as the filter reads it
EntryOf(i) == [team_id |-> i]

\* C19: once the qualified set is built, it holds exactly the ids of the
\* roster teams whose grade is the target grade, is absent or is empty; a
\* roster team with another grade is not in it and the filter keeps it
C19_QualifiedSet ==
    mpc = "skills" =>
        /\ \A i \in RosterTeams :
              i \in qualified_team_ids <=>
                 \E k \in 1..Len(worlds_teams) :
                    /\ worlds_teams[k].id = i
                    /\ \/ ~worlds_teams[k].has_grade
                       \/ worlds_teams[k].grade = ""
                       \/ worlds_teams[k].grade = "High School"
        /\ qualified_team_ids \subseteq RosterTeams
        /\ \A k \in 1..Len(worlds_teams) :
              (worlds_teams[k].has_grade /\ worlds_teams[k].grade = "Middle School") =>
                 /\ worlds_teams[k].id \notin qualified_team_ids
                 /\ Keeps(EntryOf(worlds_teams[k].id), qualified_team_ids)

C19_Witness ==
    /\ mpc = "skills"
    /\ Len(worlds_teams) = 2
    /\ ~worlds_teams[1].has_grade
    /\ worlds_teams[2].has_grade /\ worlds_teams[2].grade = "Middle School"
    /\ qualified_team_ids = {worlds_teams[1].id}


\* the events of io that read, fetch or write the dataset of the key of io[i]
SameKey(i, j) == io[i].kind = io[j].kind /\ io[i].id = io[j].id
Datasets == {"events", "worlds_teams", "skills"}

\* C20: for each of the cached datasets, the fetch from the network comes
\* directly after a cache load of its key; a load that returns a dataset, of
\* any size, is followed by no fetch of that key; after a load that returns
\* nothing the dataset is fetched and then saved under that key before main
\* touches another key
C20_CacheFirst ==
    \A i \in 1..Len(io) :
        /\ (io[i].op = "fetch" /\ io[i].kind \in Datasets) =>
              /\ i > 1
              /\ io[i - 1].op = "load"
              /\ SameKey(i - 1, i)
        /\ (io[i].op = "load" /\ io[i].got # "none") =>
              \A j \in 1..Len(io) : ~(io[j].op = "fetch" /\ SameKey(i, j))
        /\ (io[i].op = "load" /\ io[i].got = "none") =>
              /\ i < Len(io)
              /\ io[i + 1].op = "fetch"
              /\ SameKey(i, i + 1)
              /\ \A j \in (i + 2)..Len(io) :
                    (io[j].op \in {"load", "query"}) =>
                       \E s \in (i + 2)..(j - 1) : io[s].op = "save" /\ SameKey(i, s)


\* what the events of the loop have added to the run stream, in event order
RunsKept == Flatten([k \in 1..Len(skill_log) |-> skill_log[k].kept])

\* the events the loop has gone through, in order
EventsDone == [k \in 1..Len(skill_log) |-> skill_log[k].event]

\* C15: while and after main collects the skills of the season, the failed
\* fetch of an event does not end main and the loop goes through the events
\* in order; the run stream is made, in event order, of all the runs of each
\* event whose fetch succeeded and of no run of an event whose fetch failed:
\* every event adds all of its runs or none, and none when its fetch raised
C15_SkillsStream ==
    (mpc \in {"skills_loop", "skills_fetch"} \/ skill_log # <<>>) =>
        /\ error = "none"
        /\ EventsDone \o [k \in 1..Len(todo) |-> todo[k].id]
              = [k \in 1..Len(SkillsEvents(events)) |-> SkillsEvents(events)[k].id]
        /\ all_skills = RunsKept
        /\ \A k \in 1..Len(skill_log) :
              /\ skill_log[k].raised => skill_log[k].kept = <<>>
              /\ skill_log[k].kept = skill_log[k].runs \/ skill_log[k].kept = <<>>


\* a fetch of the run has ended with the exception of its last attempt
RaisedSomewhere ==
    \/ season_result.outcome = "raise"
    \/ worlds_result.outcome = "raise"
    \/ pc = "raised"
    \/ \E k \in 1..Len(skill_log) : skill_log[k].raised

\* C16 as stated: once a fetch has raised after its last attempt, the run
\* writes no report
C16_AnyFailureAborts == RaisedSomewhere => ~report.written

\* the exception of the season query or of the championship-event query has
\* ended main, and an ended main has written no report
AbortedAtQuery ==
    /\ (season_result.outcome = "raise" \/ worlds_result.outcome = "raise") =>
          mpc = "aborted" /\ error = "RequestException"
    /\ error = "RequestException" => mpc = "aborted"
    /\ mpc = "aborted" => ~report.written

\* the step main takes when _get_all_pages has raised: out of main for the
\* events and the roster, a warning and the next event for the skills of one
\* event; an ended main takes no step
RaiseStep ==
    /\ mpc # "aborted"
    /\ (pc = "raised" /\ mpc \in {"events_fetch", "roster_fetch"}) =>
          /\ mpc' = "aborted"
          /\ error' = "RequestException"
          /\ UNCHANGED <<io, cache, report>>
    /\ (pc = "raised" /\ mpc = "skills_fetch") =>
          /\ mpc' = "skills_loop"
          /\ error' = "none"
          /\ io' = io \o <<IoEv("warn", "event_skills", Head(todo).id, "none")>>
          /\ todo' = Tail(todo)
          /\ all_skills' = all_skills

\* C16, amended: an exception that leaves the season query, the events fetch,
\* the championship-event query or the roster fetch ends the run and no
\* report is written; an exception that leaves the skills fetch of one event
\* is caught, a warning is printed and the run goes on with the next event
C16_FailureAbortsOutsideSkills == []AbortedAtQuery /\ [][RaiseStep]_vars

C16_Witness ==
    /\ mpc = "aborted"
    /\ pc = "raised"
    /\ \E i \in 1..Len(io) : io[i].op = "fetch" /\ io[i].kind = "worlds_teams"
    /\ ~report.written


\* ------------------------------------------------------------------------
\* Termination of _get
\* ------------------------------------------------------------------------
\* one iteration of the loop of _get, whatever the server answers
GetStep == GetOk \/ GetRateLimited \/ GetFail

\* the server answers every request, so the loop of _get goes on while it runs
FairCalls == InitCalls /\ [][NextCalls]_vars /\ WF_vars(GetStep)

\* the requests issued by the current call of _get
CallRequests == CountEv(CallLog, "request")

\* a call of _get has issued at most MAX_RETRIES requests, as many as it has
\* had attempts; a call that is over has issued at least one; the counter of
\* the client is the number of requests issued by all calls
RequestsBounded ==
    /\ CallRequests <= 3
    /\ pc = "get" => CallRequests = attempt /\ attempt < 3
    /\ pc # "get" => CallRequests >= 1
    /\ request_count = CountEv(log, "request")

\* C23: a call of _get ends, whatever mix of successes, 429 answers and
\* failed requests it meets; it issues at least 1 and at most 3 requests, and
\* the request counter grows by exactly the number of requests issued
C23_GetTerminates == []RequestsBounded /\ (pc = "get" ~> pc # "get")

\* a call that met a 429 answer and two failed requests, and raised
C23_Witness ==
    /\ pc = "raised"
    /\ CallRequests = 3
    /\ CountEv(CallLog, "rate_limited") = 1
    /\ CountEv(CallLog, "error") = 2


\* ------------------------------------------------------------------------
\* Aggregation of runs with missing fields
\* ------------------------------------------------------------------------
\* the dict without fields
NoFields == [f \in {} |-> 0]

\* a run holds any of its four fields or not; its type may be a third one
TeamParts == {NoFields} \cup {[team |-> 1]}
EventParts == {NoFields} \cup {[event |-> 1]}
TypeParts == {NoFields} \cup {[type |-> t] : t \in SkillTypes \cup {"other"}}
ScoreParts == {NoFields} \cup {[score |-> 1]}
RawRecords ==
    {t @@ e @@ ty @@ s : t \in TeamParts, e \in EventParts, ty \in TypeParts, s \in ScoreParts}

RawStreams == SeqsUpTo(RawRecords, MaxRawRuns)

InitRaw ==
    /\ FetchIdle
    /\ MainIdle
    /\ stage = "input"
    /\ all_skills \in RawStreams
    /\ team_event = <<>>
    /\ leaderboard = <<>>
    /\ qualified_team_ids = {}
    /\ non_qualified = <<>>
    /\ qualified_in_top = 0

NextRaw == Aggregate \/ Filter

SpecRaw == InitRaw /\ [][NextRaw]_vars


\* the greatest number of a finite non-empty set
SetMax(S) == CHOOSE m \in S : \A x \in S : x <= m

\* the runs of the stream that belong to the group g: a run without a team
\* or without an event belongs to the group of the key None
Members(g) ==
    {i \in 1..Len(all_skills) :
        /\ g.team_id = (IF "team" \in DOMAIN all_skills[i] THEN all_skills[i].team ELSE 0)
        /\ g.event_id = (IF "event" \in DOMAIN all_skills[i] THEN all_skills[i].event ELSE 0)}

\* the scores of the runs of type ty in the group g, a run without a score
\* counting as 0, and 0 itself
ScoresOf(g, ty) ==
    {0} \cup {IF "score" \in DOMAIN all_skills[i] THEN all_skills[i].score ELSE 0 :
                i \in {j \in Members(g) :
                          "type" \in DOMAIN all_skills[j] /\ all_skills[j].type = ty}}

\* C21: aggregate_skills does not fail on runs that lack any of their team,
\* event, type and score fields and returns a leaderboard with one entry per
\* team key; every run has its group, even a run without a usable type; the
\* driver and programming maxima of a group are those of its driver and
\* programming runs, a run without a score counting as 0, and runs of a
\* missing or other type change neither
C21_MalformedRuns ==
    /\ stage # "failed"
    /\ stage = "aggregated" =>
          /\ \A i \in 1..Len(all_skills) :
                \E k \in 1..Len(team_event) : i \in Members(team_event[k])
          /\ \A k \in 1..Len(team_event) :
                /\ Members(team_event[k]) # {}
                /\ team_event[k].driver = SetMax(ScoresOf(team_event[k], "driver"))
                /\ team_event[k].programming = SetMax(ScoresOf(team_event[k], "programming"))
          /\ Len(leaderboard) =
                Cardinality({team_event[k].team_id : k \in 1..Len(team_event)})

\* a driver run without a score, and a run of a team that holds nothing else
C21_Witness ==
    /\ stage = "aggregated"
    /\ all_skills = <<[event |-> 1, type |-> "driver"], [team |-> 1]>>
    /\ Len(team_event) = 2
    /\ Len(leaderboard) = 2
    /\ leaderboard[1].combined = 0


\* C22: the runs without a team identifier are kept by the scan, in groups
\* of the key None, but no entry of the leaderboard handed to the filter and
\* no entry of the bubble list handed to the report has an undefined team
\* identifier
C22_NoUndefinedTeam ==
    stage \in {"aggregated", "filtered"} =>
        /\ \A i \in 1..Len(all_skills) :
              "team" \notin DOMAIN all_skills[i] =>
                 \E k \in 1..Len(team_event) : team_event[k].team_id = None
        /\ \A k \in 1..Len(leaderboard) : leaderboard[k].team_id # None
        /\ \A k \in 1..Len(non_qualified) : non_qualified[k].team_id # None


\* ------------------------------------------------------------------------
\* Independence of the order of the runs
\* ------------------------------------------------------------------------
\* the runs of two teams, the first of them at two events, and a run that
\* holds no field at all
OrderRecords ==
    {r \in RunRecords : r.team \in {1, 2} /\ (r.team = 2 => r.event = 1)} \cup {NoFields}

OrderStreams == SeqsUpTo(OrderRecords, MaxOrderRuns)

InitOrder ==
    /\ FetchIdle
    /\ MainIdle
    /\ stage = "input"
    /\ all_skills \in OrderStreams
    /\ team_event = <<>>
    /\ leaderboard = <<>>
    /\ qualified_team_ids = {}
    /\ non_qualified = <<>>
    /\ qualified_in_top = 0

NextOrder == Aggregate

SpecOrder == InitOrder /\ [][NextOrder]_vars

\* the orders in which n runs can arrive
Orders(n) == {p \in [1..n -> 1..n] : \A i, j \in 1..n : p[i] = p[j] => i = j}

\* the runs in the order p
Reordered(runs, p) == [i \in 1..Len(runs) |-> runs[p[i]]]

\* the teams of a leaderboard, each with its combined score
TeamScores(lb) == {<<lb[k].team_id, lb[k].combined>> : k \in 1..Len(lb)}

\* C24: aggregate_skills gives the same teams, each with the same combined
\* score, for a run stream and for every reordering of it
C24_OrderIndependent ==
    stage = "aggregated" =>
        \A p \in Orders(Len(all_skills)) :
            TeamScores(aggregate_skills(Reordered(all_skills, p))) = TeamScores(leaderboard)

\* a team whose better event comes second; the reordering puts it first
C24_Witness ==
    /\ stage = "aggregated"
    /\ Len(all_skills) = 3
    /\ all_skills[1] = [team |-> 1, event |-> 1, type |-> "driver", score |-> 0]
    /\ all_skills[2] = [team |-> 1, event |-> 2, type |-> "driver", score |-> 1]
    /\ all_skills[3] = [team |-> 2, event |-> 1, type |-> "programming", score |-> 1]
    /\ TeamScores(leaderboard) = {<<1, 1>>, <<2, 1>>}

====
